---- MODULE Spec2Model ----
(***************************************************************************)
(* Model of the flashcards server (src/server.js): the store file, the     *)
(* safeRead / safeWrite pair, the in-process write chain (enqueueWrite),   *)
(* sanitizeCard and the four routes GET / POST / PUT / DELETE /api/cards.  *)
(*                                                                         *)
(* Modelling conventions                                                   *)
(*  - a JS string that the code inspects (front, back) is a sequence of    *)
(*    one-character strings; other strings are TLA+ strings, "" is falsy;  *)
(*  - a timestamp is a positive integer, 0 stands for a falsy value;       *)
(*  - a JS object with optional keys is a record with a field `has`, the   *)
(*    set of keys that are present;                                        *)
(*  - ease is kept in tenths (2.5 is 25);                                  *)
(*  - nanoid() returns an id that was never returned before (its          *)
(*    collision probability is taken to be zero);                          *)
(*  - fs.readFile of an existing file does not fail; the fs.writeFile and  *)
(*    the fs.rename of safeWrite may fail (disk full, permissions);        *)
(*  - keys of a PUT body that are not card fields are not stored.          *)
(***************************************************************************)
EXTENDS Integers, Sequences, FiniteSets, TLC

\* ------------------------------------------------------------------ bounds
MaxReq   == 2      \* requests that arrive in one run
MaxBatch == 2      \* items in one POST body
MaxTime  == 2      \* last clock value
MaxGen   == 2      \* ids nanoid() hands out in one run

\* --------------------------------------------------------------- JS values
CardFields == {"id", "front", "back", "lang_from", "lang_to", "tags",
               "ease", "interval", "next_review", "lapses", "created_at"}

WS == {" "}

\* a value that is a string or an array of strings (back, translation)
Str(t) == [arr |-> FALSE, s |-> t, a |-> <<>>]
Arr(l) == [arr |-> TRUE, s |-> <<>>, a |-> l]

RECURSIVE DropWhile(_, _)
DropWhile(s, set) ==
  IF s = <<>> THEN <<>>
  ELSE IF Head(s) \in set THEN DropWhile(Tail(s), set) ELSE s

RECURSIVE DropWhileEnd(_, _)
DropWhileEnd(s, set) ==
  IF s = <<>> THEN <<>>
  ELSE IF s[Len(s)] \in set THEN DropWhileEnd(SubSeq(s, 1, Len(s) - 1), set)
       ELSE s

\* String.prototype.trim
Trim(s) == DropWhileEnd(DropWhile(s, WS), WS)

\* s.replace(/^=+\s*/, ""): a leading run of "=" and the whitespace after it
StripEq(s) ==
  IF s # <<>> /\ Head(s) = "=" THEN DropWhile(DropWhile(s, {"="}), WS)
  ELSE s

\* String(v).replace(/^=+\s*/, "").trim()
NormText(s) == Trim(StripEq(s))

\* arr.map(v => String(v)).join(" / ")
RECURSIVE Join(_)
Join(l) ==
  IF l = <<>> THEN <<>>
  ELSE IF Len(l) = 1 THEN l[1]
  ELSE l[1] \o <<" ", "/", " ">> \o Join(Tail(l))

\* Array.isArray(v) ? v.map(String).join(" / ") : String(v).replace(...).trim()
NormBack(v) == IF v.arr THEN Join(v.a) ELSE NormText(v.s)

\* nanoid(): the k-th id handed out
nanoid(k) == "g" \o ToString(k)

EaseDefault == 25

\* Array.prototype.slice(0, n)
Slice(s, n) == SubSeq(s, 1, IF Len(s) < n THEN Len(s) ELSE n)

TagsLimit == 10

\* a request body item: `has` is the set of keys present in the JSON object
RawBase ==
  [has |-> {}, id |-> "", front |-> <<>>, portuguese |-> <<>>,
   back |-> Str(<<>>), translation |-> Str(<<>>),
   lang_from |-> "", lang_to |-> "", tags |-> <<>>,
   ease |-> 0, interval |-> 0, next_review |-> 0, lapses |-> 0, created_at |-> 0]

\* c.k ?? d
Nullish(c, k, d) == IF k \in c.has THEN c[k] ELSE d

\* c.k || d for a string, c.k || d for a timestamp
OrStr(c, k, d) == IF k \in c.has /\ c[k] # "" THEN c[k] ELSE d
OrNum(c, k, d) == IF k \in c.has /\ c[k] # 0 THEN c[k] ELSE d

\* the front and back sanitizeCard computes
SanFront(c) ==
  NormText(IF "front" \in c.has THEN c.front ELSE Nullish(c, "portuguese", <<>>))
SanBack(c) ==
  NormBack(IF "back" \in c.has THEN c.back ELSE Nullish(c, "translation", Str(<<>>)))

\* sanitizeCard without the check of line 87
SanNullNever(c) == FALSE

\* sanitizeCard returns null
SanNull(c) == SanFront(c) = <<>> \/ SanBack(c) = <<>>

\* sanitizeCard calls nanoid()
NeedsId(c) == ~SanNull(c) /\ ~("id" \in c.has /\ c.id # "")

\* sanitizeCard(c) when it is not null; t is `now`, g the id nanoid() returns
sanitizeCard(c, t, g) ==
  [id          |-> OrStr(c, "id", g),
   front       |-> SanFront(c),
   back        |-> SanBack(c),
   lang_from   |-> OrStr(c, "lang_from", "pt"),
   lang_to     |-> OrStr(c, "lang_to", "de"),
   tags        |-> IF "tags" \in c.has THEN Slice(c.tags, TagsLimit) ELSE <<>>,
   ease        |-> Nullish(c, "ease", EaseDefault),
   interval    |-> Nullish(c, "interval", 0),
   next_review |-> OrNum(c, "next_review", t),
   lapses      |-> Nullish(c, "lapses", 0),
   created_at  |-> OrNum(c, "created_at", t)]

\* incoming.map(sanitizeCard).filter(Boolean); k ids were handed out before
RECURSIVE SanitizeAll(_, _, _)
SanitizeAll(items, t, k) ==
  IF items = <<>> THEN <<>>
  ELSE IF SanNull(Head(items)) THEN SanitizeAll(Tail(items), t, k)
  ELSE IF NeedsId(Head(items))
       THEN <<sanitizeCard(Head(items), t, nanoid(k + 1))>>
            \o SanitizeAll(Tail(items), t, k + 1)
       ELSE <<sanitizeCard(Head(items), t, "")>> \o SanitizeAll(Tail(items), t, k)

\* number of nanoid() calls a body makes
RECURSIVE IdsNeeded(_)
IdsNeeded(items) ==
  IF items = <<>> THEN 0
  ELSE (IF NeedsId(Head(items)) THEN 1 ELSE 0) + IdsNeeded(Tail(items))

\* ---------------------------------------------------------------- mutators
\* { ...old, ...p }: the keys of p override, the other keys of old stay
Merge(old, p, keys) == [f \in CardFields |-> IF f \in keys THEN p[f] ELSE old[f]]

Max(S) == CHOOSE m \in S : \A n \in S : n <= m
Min(S) == CHOOSE m \in S : \A n \in S : m <= n

Positions(cards, id) == {i \in 1..Len(cards) : cards[i].id = id}

\* new Map(cards.map((x,i)=>[x.id, i])).get(id): the last position wins; 0: none
IdxOf(cards, id) ==
  IF Positions(cards, id) = {} THEN 0 ELSE Max(Positions(cards, id))

\* cards.findIndex(c => c.id === id); 0 stands for -1
FindIndex(cards, id) ==
  IF Positions(cards, id) = {} THEN 0 ELSE Min(Positions(cards, id))

\* an upsert that never looks for the id
UpsertOneAppend(cards, loaded, n) == Append(cards, n)

\* one turn of the loop of the POST mutator; loaded is the array idx was built from
UpsertOne(cards, loaded, n) ==
  IF IdxOf(loaded, n.id) # 0
  THEN [cards EXCEPT ![IdxOf(loaded, n.id)] = Merge(@, n, CardFields)]
  ELSE Append(cards, n)

RECURSIVE UpsertLoop(_, _, _)
UpsertLoop(cards, loaded, items) ==
  IF items = <<>> THEN cards
  ELSE UpsertLoop(UpsertOne(cards, loaded, Head(items)), loaded, Tail(items))

\* the mutator of POST /api/cards
PostMutator(cards, sanitized) == UpsertLoop(cards, cards, sanitized)

\* the normalisation PUT applies to its body before it enqueues
NormPatch(p) ==
  [has |-> p.has \cap CardFields, id |-> p.id,
   front |-> NormText(p.front), back |-> NormBack(p.back),
   lang_from |-> p.lang_from, lang_to |-> p.lang_to, tags |-> p.tags,
   ease |-> p.ease, interval |-> p.interval, next_review |-> p.next_review,
   lapses |-> p.lapses, created_at |-> p.created_at]

\* `updated` set before the mutator looked for the card
PutUpdatedAlways(cards, id) == TRUE

\* the mutator of PUT /api/cards/:id and the value it leaves in `updated`
PutUpdated(cards, id) == FindIndex(cards, id) # 0
PutMutator(cards, id, patch) ==
  IF FindIndex(cards, id) = 0 THEN cards
  ELSE [cards EXCEPT ![FindIndex(cards, id)] = Merge(@, patch, patch.has)]

\* the mutator of DELETE /api/cards/:id and the value it leaves in `removed`
DeleteMutator(cards, id) == SelectSeq(cards, LAMBDA c : c.id # id)
DeleteRemoved(cards, id) == Len(DeleteMutator(cards, id)) # Len(cards)

\* the mutator a request enqueued, and the flag it sets
Mutator(r, cards) ==
  CASE r.kind = "POST"   -> PostMutator(cards, r.items)
    [] r.kind = "PUT"    -> PutMutator(cards, r.id, r.patch)
    [] r.kind = "DELETE" -> DeleteMutator(cards, r.id)
    [] OTHER             -> cards
Flag(r, cards) ==
  CASE r.kind = "PUT"    -> PutUpdated(cards, r.id)
    [] r.kind = "DELETE" -> DeleteRemoved(cards, r.id)
    [] OTHER             -> TRUE

\* ------------------------------------------------------------- file system
DATA_FILE == "cards.json"

\* safeWrite writing the store file in place
tmpPathInPlace(i) == DATA_FILE

\* the temporary file of the unit of request i (pid and Date.now() in the code)
tmpPath(i) == "cards.tmp." \o ToString(i)

Paths == {DATA_FILE} \cup {tmpPath(i) : i \in 1..MaxReq}

Absent      == [exists |-> FALSE, ok |-> FALSE, cards |-> <<>>]
\* a file that exists and does not parse as JSON (empty or half written)
Unparsable  == [exists |-> TRUE, ok |-> FALSE, cards |-> <<>>]
Holding(cs) == [exists |-> TRUE, ok |-> TRUE, cards |-> cs]

\* fs.writeFile whose write step stores nothing
FsWriteNothing(f, p, cs) == f

\* fs.writeFile(p, data): open with O_CREAT|O_TRUNC, then write the data
FsOpenTrunc(f, p)    == [f EXCEPT ![p] = Unparsable]
FsWriteAll(f, p, cs) == [f EXCEPT ![p] = Holding(cs)]
\* fs.rename(from, to): atomic replacement of the directory entry
FsRename(f, from, to) ==
  IF from = to THEN f ELSE [f EXCEPT ![to] = f[from], ![from] = Absent]

\* safeRead taking an empty array for a failure
ParsesNonEmpty(f) == f[DATA_FILE].exists /\ f[DATA_FILE].ok /\ f[DATA_FILE].cards # <<>>

\* JSON.parse(await fs.readFile(DATA_FILE)) does not throw
Parses(f) == f[DATA_FILE].exists /\ f[DATA_FILE].ok

\* ------------------------------------------------------------------ inputs
ItemA ==
  [RawBase EXCEPT !.has = {"id", "front", "back"}, !.id = "a",
                  !.front = <<"=", " ", "h">>,
                  !.back = Arr(<< <<"x">>, <<"y">> >>)]
ItemNew ==
  [RawBase EXCEPT !.has = {"portuguese", "translation"},
                  !.portuguese = <<"f">>, !.translation = Str(<<"x">>)]
ItemBad ==
  [RawBase EXCEPT !.has = {"front", "back"},
                  !.front = <<"=", " ">>, !.back = Str(<<"x">>)]
RawItems == {ItemA, ItemNew, ItemBad}

\* req.body of POST: one object or an array of objects
Bodies == UNION {[1..n -> RawItems] : n \in 1..MaxBatch}

PatchInterval == [RawBase EXCEPT !.has = {"interval"}, !.interval = 3]
PatchId       == [RawBase EXCEPT !.has = {"id"}, !.id = "b"]
PatchFront    == [RawBase EXCEPT !.has = {"front", "created_at"},
                                 !.front = <<"=", " ">>, !.created_at = 2]
Patches == {PatchInterval, PatchId, PatchFront}

\* req.params.id of PUT and DELETE
ParamIds == {"a", "z"}

\* the collections the store file may hold when the process starts
CardA ==
  sanitizeCard([RawBase EXCEPT !.has = {"id", "front", "back"}, !.id = "a",
                !.front = <<"f">>, !.back = Str(<<"x">>)], 1, "")
CardB ==
  sanitizeCard([RawBase EXCEPT !.has = {"id", "front", "back"}, !.id = "b",
                !.front = <<"g">>, !.back = Str(<<"y">>)], 1, "")
InitFiles == {<<>>, <<CardA, CardB>>}

\* ------------------------------------------------------------------- state
VARIABLES
  fs,      \* the data directory: path -> file
  reqs,    \* the requests in arrival order, each with its handler's position
  chain,   \* writeChain: the requests whose unit was enqueued, in enqueue order
  now,     \* the clock
  gen,     \* number of ids nanoid() has handed out
  file0    \* the collection the store file held at startup
vars == <<fs, reqs, chain, now, gen, file0>>

NoResp == [status |-> 0, n |-> 0, added |-> 0, cards |-> <<>>]

\* a request at arrival
NewReq(kind, stage, pc, items, id, patch) ==
  [kind |-> kind, stage |-> stage, pc |-> pc, items |-> items, id |-> id,
   patch |-> patch, loaded |-> <<>>, next |-> <<>>, flag |-> FALSE,
   saved |-> FALSE, waited |-> FALSE, incoming |-> <<>>, resp |-> NoResp]

Answer(status, n, added, cards) ==
  [status |-> status, n |-> n, added |-> added, cards |-> cards]

\* lines 35-36: the directory exists and the store file holds an array
Init ==
  /\ \E c \in InitFiles :
       /\ fs = [p \in Paths |-> IF p = DATA_FILE THEN Holding(c) ELSE Absent]
       /\ file0 = c
  /\ reqs = <<>>
  /\ chain = <<>>
  /\ now = 1
  /\ gen = 0

\* the store file was corrupted by hand before the first request
InitCorrupt ==
  /\ fs = [p \in Paths |-> IF p = DATA_FILE THEN Unparsable ELSE Absent]
  /\ file0 = <<>>
  /\ reqs = <<>>
  /\ chain = <<>>
  /\ now = 1
  /\ gen = 0

\* ----------------------------------------------------------------- actions
Mutating == {"POST", "PUT", "DELETE"}

\* the promise enqueueWrite returned for request j is resolved
Settled(j) == reqs[j].stage # "unit" \/ reqs[j].pc = "done"

\* enqueueWrite without the chain: the unit runs as soon as it is enqueued
PredecessorDoneUnchained(i) == TRUE

\* enqueueWrite without .catch: a failed unit leaves the chain rejected
PredecessorDoneNoCatch(i) ==
  \A k \in 2..Len(chain) :
    chain[k] = i => (Settled(chain[k - 1]) /\ reqs[chain[k - 1]].saved)

\* writeChain.then(...): the unit of i runs once the promise before it in the
\* chain is resolved; .catch resolves it whether the unit saved or failed
PredecessorDone(i) ==
  \A k \in 2..Len(chain) : chain[k] = i => Settled(chain[k - 1])

\* a unit enqueued now is chained behind a unit that has not finished
Busy == \E k \in 1..Len(chain) : ~Settled(chain[k])

\* requireToken answers 401: the handler returns before it does anything else
ArriveUnauthorized(kind) ==
  /\ Len(reqs) < MaxReq
  /\ reqs' = Append(reqs, [NewReq(kind, "auth", "done", <<>>, "", NormPatch(RawBase))
                             EXCEPT !.resp = Answer(401, 0, 0, <<>>)])
  /\ UNCHANGED <<fs, chain, now, gen, file0>>

\* GET /api/cards: the handler calls safeRead
ArriveGet ==
  /\ Len(reqs) < MaxReq
  /\ reqs' = Append(reqs, NewReq("GET", "get", "read", <<>>, "", NormPatch(RawBase)))
  /\ UNCHANGED <<fs, chain, now, gen, file0>>

\* POST /api/cards at time t: sanitize, answer 400 or enqueue the unit
ArrivePost(body, t) ==
  /\ Len(reqs) < MaxReq
  /\ gen + IdsNeeded(body) <= MaxGen
  /\ now' = t
  /\ gen' = gen + IdsNeeded(body)
  /\ LET sanitized == SanitizeAll(body, t, gen) IN
       IF sanitized = <<>>
       THEN /\ reqs' = Append(reqs,
                 [NewReq("POST", "invalid", "done", <<>>, "", NormPatch(RawBase))
                    EXCEPT !.resp = Answer(400, 0, 0, <<>>), !.incoming = body])
            /\ chain' = chain
       ELSE /\ reqs' = Append(reqs,
                 [NewReq("POST", "unit", "queued", sanitized, "", NormPatch(RawBase))
                    EXCEPT !.waited = Busy, !.incoming = body])
            /\ chain' = Append(chain, Len(reqs) + 1)
  /\ UNCHANGED <<fs, file0>>

\* PUT /api/cards/:id: normalise the body, enqueue the unit
ArrivePut(id, patch) ==
  /\ Len(reqs) < MaxReq
  /\ reqs' = Append(reqs,
       [NewReq("PUT", "unit", "queued", <<>>, id, NormPatch(patch))
          EXCEPT !.waited = Busy])
  /\ chain' = Append(chain, Len(reqs) + 1)
  /\ UNCHANGED <<fs, now, gen, file0>>

\* DELETE /api/cards/:id: enqueue the unit
ArriveDelete(id) ==
  /\ Len(reqs) < MaxReq
  /\ reqs' = Append(reqs,
       [NewReq("DELETE", "unit", "queued", <<>>, id, NormPatch(RawBase))
          EXCEPT !.waited = Busy])
  /\ chain' = Append(chain, Len(reqs) + 1)
  /\ UNCHANGED <<fs, now, gen, file0>>

\* the unit of request i gets its turn and calls safeRead
UnitStart(i) ==
  /\ i \in 1..Len(reqs)
  /\ reqs[i].stage = "unit" /\ reqs[i].pc = "queued"
  /\ PredecessorDone(i)
  /\ reqs' = [reqs EXCEPT ![i].pc = "read"]
  /\ UNCHANGED <<fs, chain, now, gen, file0>>

\* what the caller of safeRead does with the collection cur it returned
AfterRead(r, cur) ==
  CASE r.stage = "get" ->
         [r EXCEPT !.pc = "done", !.resp = Answer(200, Len(cur), 0, cur)]
    [] r.stage = "unit" ->
         [r EXCEPT !.pc = "open", !.loaded = cur, !.next = Mutator(r, cur),
                   !.flag = Flag(r, cur)]
    [] r.stage = "after" ->
         [r EXCEPT !.pc = "done", !.resp = Answer(200, Len(cur), Len(r.items), <<>>)]

\* safeRead, one step at a time: read and parse; on a failure write "[]" to
\* the store file (open with truncation, then write) and return []. The write
\* goes to the file that was opened: when a rename has replaced the directory
\* entry since (pc "reset_stale"), the store file is not the one written.
SafeRead(i) ==
  /\ i \in 1..Len(reqs)
  /\ reqs[i].pc \in {"read", "reset_open", "reset_write", "reset_stale"}
  /\ CASE reqs[i].pc = "read" ->
            IF Parses(fs)
            THEN /\ reqs' = [reqs EXCEPT ![i] = AfterRead(@, fs[DATA_FILE].cards)]
                 /\ fs' = fs
            ELSE /\ reqs' = [reqs EXCEPT ![i].pc = "reset_open"]
                 /\ fs' = fs
       [] reqs[i].pc = "reset_open" ->
            /\ fs' = FsOpenTrunc(fs, DATA_FILE)
            /\ reqs' = [reqs EXCEPT ![i].pc = "reset_write"]
       [] reqs[i].pc = "reset_write" ->
            /\ fs' = FsWriteAll(fs, DATA_FILE, <<>>)
            /\ reqs' = [reqs EXCEPT ![i] = AfterRead(@, <<>>)]
       [] reqs[i].pc = "reset_stale" ->
            /\ fs' = fs
            /\ reqs' = [reqs EXCEPT ![i] = AfterRead(@, <<>>)]
  /\ UNCHANGED <<chain, now, gen, file0>>

\* a POST handler that answers from the collection its unit computed
SettleWithoutReload(r, saved) ==
  [r EXCEPT !.pc = "done", !.saved = saved,
            !.resp = IF r.kind = "POST"
                     THEN Answer(200, Len(r.next), Len(r.items), <<>>)
                     ELSE Answer(IF r.flag THEN 200 ELSE 404, 0, 0, <<>>)]

\* a handler that answers 500 when the save of its unit failed
SettleReportsFailure(r, saved) ==
  IF r.kind = "POST"
  THEN [r EXCEPT !.stage = "after", !.pc = "read", !.saved = saved]
  ELSE [r EXCEPT !.pc = "done", !.saved = saved,
                 !.resp = Answer(IF ~saved THEN 500
                                 ELSE IF r.flag THEN 200 ELSE 404, 0, 0, <<>>)]

\* the promise of the unit is resolved: PUT and DELETE answer, POST re-loads
Settle(r, saved) ==
  IF r.kind = "POST"
  THEN [r EXCEPT !.stage = "after", !.pc = "read", !.saved = saved]
  ELSE [r EXCEPT !.pc = "done", !.saved = saved,
                 !.resp = Answer(IF r.flag THEN 200 ELSE 404, 0, 0, <<>>)]

\* safeWrite, fs.writeFile(tmp, json): the temporary file is created empty
WriteOpen(i) ==
  /\ i \in 1..Len(reqs)
  /\ reqs[i].stage = "unit" /\ reqs[i].pc = "open"
  /\ fs' = FsOpenTrunc(fs, tmpPath(i))
  /\ reqs' = [reqs EXCEPT ![i].pc = "write"]
  /\ UNCHANGED <<chain, now, gen, file0>>

\* safeWrite, fs.writeFile(tmp, json): the JSON text is written
WriteData(i) ==
  /\ i \in 1..Len(reqs)
  /\ reqs[i].stage = "unit" /\ reqs[i].pc = "write"
  /\ fs' = FsWriteAll(fs, tmpPath(i), reqs[i].next)
  /\ reqs' = [reqs EXCEPT ![i].pc = "rename"]
  /\ UNCHANGED <<chain, now, gen, file0>>

\* safeWrite, fs.rename(tmp, DATA_FILE); a safeRead that holds the replaced
\* file open for its reset keeps writing to that file
Rename(i) ==
  /\ i \in 1..Len(reqs)
  /\ reqs[i].stage = "unit" /\ reqs[i].pc = "rename"
  /\ fs' = FsRename(fs, tmpPath(i), DATA_FILE)
  /\ reqs' = [j \in 1..Len(reqs) |->
                IF j = i THEN Settle(reqs[j], TRUE)
                ELSE IF reqs[j].pc = "reset_write" /\ tmpPath(i) # DATA_FILE
                     THEN [reqs[j] EXCEPT !.pc = "reset_stale"]
                     ELSE reqs[j]]
  /\ UNCHANGED <<chain, now, gen, file0>>

\* fs.writeFile or fs.rename throws: .catch logs write_failed
SaveFail(i) ==
  /\ i \in 1..Len(reqs)
  /\ reqs[i].stage = "unit" /\ reqs[i].pc \in {"open", "write", "rename"}
  /\ reqs' = [reqs EXCEPT ![i] = Settle(@, FALSE)]
  /\ UNCHANGED <<fs, chain, now, gen, file0>>

Next ==
  \/ \E kind \in Mutating : ArriveUnauthorized(kind)
  \/ ArriveGet
  \/ \E body \in Bodies, t \in now..MaxTime : ArrivePost(body, t)
  \/ \E id \in ParamIds, patch \in Patches : ArrivePut(id, patch)
  \/ \E id \in ParamIds : ArriveDelete(id)
  \/ \E i \in 1..Len(reqs) : UnitStart(i)
  \/ \E i \in 1..Len(reqs) : SafeRead(i)
  \/ \E i \in 1..Len(reqs) : WriteOpen(i)
  \/ \E i \in 1..Len(reqs) : WriteData(i)
  \/ \E i \in 1..Len(reqs) : Rename(i)
  \/ \E i \in 1..Len(reqs) : SaveFail(i)

Spec == Init /\ [][Next]_vars

CorruptSpec == InitCorrupt /\ [][Next]_vars

\* the event loop runs every continuation that is ready
FairSpec ==
  Spec /\ \A i \in 1..MaxReq :
            /\ WF_vars(UnitStart(i)) /\ WF_vars(SafeRead(i))
            /\ WF_vars(WriteOpen(i) \/ SaveFail(i))
            /\ WF_vars(WriteData(i) \/ SaveFail(i))
            /\ WF_vars(Rename(i) \/ SaveFail(i))

TypeOK ==
  /\ Len(reqs) <= MaxReq
  /\ now \in 1..MaxTime
  /\ gen \in 0..MaxGen

\* ------------------------------------------------------------- properties
Units == {chain[k] : k \in 1..Len(chain)}

\* every handler has answered
Quiescent == \A i \in 1..Len(reqs) : reqs[i].pc = "done"

\* the unit of request i is between the start of its load and the end of its save
InFlight(i) ==
  /\ reqs[i].stage = "unit"
  /\ reqs[i].pc \in {"read", "reset_open", "reset_write", "reset_stale",
                     "open", "write", "rename"}

\* the mutators of the units from position k on, applied in enqueue order;
\* with onlySaved, the units whose save failed are left out
RECURSIVE ApplyUnits(_, _, _)
ApplyUnits(cards, k, onlySaved) ==
  IF k > Len(chain) THEN cards
  ELSE ApplyUnits(IF onlySaved /\ ~reqs[chain[k]].saved THEN cards
                  ELSE Mutator(reqs[chain[k]], cards),
                  k + 1, onlySaved)

StoreCards == fs[DATA_FILE].cards

\* C1 as stated: once every call has completed the store file holds the result
\* of applying the mutator of every call, in arrival order, to the collection
\* the file held at the start.
C1_AllMutatorsApplied ==
  Quiescent => fs[DATA_FILE] = Holding(ApplyUnits(file0, 1, FALSE))

\* C1 amended: once every call has completed the store file holds the result
\* of applying, in arrival order, the mutators of the calls whose save step
\* succeeded to the collection the file held at the start.
C1_SavedMutatorsApplied ==
  Quiescent => fs[DATA_FILE] = Holding(ApplyUnits(file0, 1, TRUE))

\* two units that overlapped in time have both saved, and the first one's
\* write is part of the result
C1_Witness ==
  /\ Quiescent /\ Len(chain) = 2
  /\ reqs[chain[1]].saved /\ reqs[chain[2]].saved /\ reqs[chain[2]].waited
  /\ StoreCards # file0
  /\ StoreCards # Mutator(reqs[chain[2]], file0)
  /\ StoreCards # Mutator(reqs[chain[1]], file0)

\* C2: at most one unit is between the start of its load and the end of its
\* save.
C2_OneCycleInFlight ==
  Cardinality({i \in 1..Len(reqs) : InFlight(i)}) <= 1

\* a unit is saving while another one waits in the chain
C2_Witness ==
  \E i, j \in 1..Len(reqs) :
    /\ InFlight(i) /\ reqs[i].pc = "rename"
    /\ reqs[j].stage = "unit" /\ reqs[j].pc = "queued"

\* the last unit in the chain whose save succeeded
LastSaved(j) ==
  /\ j \in Units /\ reqs[j].saved
  /\ \A i \in Units : i > j => ~reqs[i].saved

\* C3: a unit does not start its load before every unit enqueued earlier has
\* finished its save or failed, and once all calls have completed the store
\* file holds what the last unit that saved wrote.
C3_FifoLastWriteWins ==
  /\ \A i, j \in Units :
       (i < j /\ reqs[j].pc # "queued") => Settled(i)
  /\ Quiescent =>
       \A j \in Units : LastSaved(j) => StoreCards = reqs[j].next

\* a POST of card "a" and a PUT of its front, enqueued behind it: the front
\* the PUT wrote remains
C3_Witness ==
  /\ Quiescent /\ Len(chain) = 2
  /\ reqs[chain[1]].kind = "POST" /\ reqs[chain[1]].saved
  /\ \E k \in 1..Len(reqs[chain[1]].items) : reqs[chain[1]].items[k].id = "a"
  /\ reqs[chain[2]].kind = "PUT" /\ reqs[chain[2]].id = "a"
  /\ "front" \in reqs[chain[2]].patch.has
  /\ reqs[chain[2]].waited /\ reqs[chain[2]].saved /\ reqs[chain[2]].flag
  /\ StoreCards[FindIndex(StoreCards, "a")].front = reqs[chain[2]].patch.front

\* C4: every unit that was enqueued eventually starts its load.
C4_EveryUnitGetsItsTurn ==
  \A i \in 1..MaxReq :
    (i <= Len(reqs) /\ reqs[i].stage = "unit" /\ reqs[i].pc = "queued")
      ~> (i <= Len(reqs) /\ reqs[i].pc # "queued")

\* a unit has started although the unit before it in the chain failed to save
C4_Witness ==
  \E k \in 2..Len(chain) :
    /\ Settled(chain[k - 1]) /\ ~reqs[chain[k - 1]].saved
    /\ reqs[chain[k]].waited
    /\ reqs[chain[k]].pc # "queued"

\* the step in which the unit of request i ends without having saved
FailsNow(i) ==
  /\ InFlight(i)
  /\ i <= Len(reqs') /\ ~(reqs'[i].stage = "unit" /\ reqs'[i].pc # "done")
  /\ ~reqs'[i].saved

\* C5: when a unit fails, the store file holds afterwards the collection the
\* unit loaded.
C5_FailedUnitLeavesFile ==
  [][\A i \in 1..Len(reqs) : FailsNow(i) => fs'[DATA_FILE] = Holding(reqs[i].loaded)]_vars

\* a unit that would have changed the collection failed in its save step and
\* the store file still holds what the unit loaded
C5_Witness ==
  \E i \in Units :
    /\ Settled(i) /\ ~reqs[i].saved
    /\ reqs[i].next # reqs[i].loaded
    /\ StoreCards = reqs[i].loaded
    /\ fs[tmpPath(i)].exists

\* the reset-to-empty path of safeRead is being taken
Resetting(i) == reqs[i].pc \in {"reset_open", "reset_write", "reset_stale"}

\* C6: the store file always exists and parses, and no load takes the
\* reset-to-empty path.
C6_StoreAlwaysParses ==
  /\ Parses(fs)
  /\ \A i \in 1..Len(reqs) : ~Resetting(i)

\* a GET that arrived while a unit was running has read the file while that
\* unit is in its save step
C6_Witness ==
  \E g, u \in 1..Len(reqs) :
    /\ u < g
    /\ reqs[g].kind = "GET" /\ reqs[g].pc = "done" /\ reqs[g].resp.status = 200
    /\ reqs[u].stage = "unit" /\ reqs[u].pc \in {"write", "rename"}
    /\ reqs[u].next # reqs[u].loaded

IdsUnique(cards) ==
  \A p, q \in 1..Len(cards) : cards[p].id = cards[q].id => p = q

\* C8: no two cards in the store file share an id.
C8_StoreIdsUnique == IdsUnique(StoreCards)

\* the mutator of the POST unit of request i has run
Upserted(i) ==
  /\ reqs[i].kind = "POST" /\ reqs[i].stage = "unit"
  /\ reqs[i].pc \in {"open", "write", "rename"}

\* the item has the id of no card of the loaded collection
Novel(loaded, n) == \A p \in 1..Len(loaded) : loaded[p].id # n.id

\* the last item of the body that carries the id
LastItem(items, id) == items[Max({k \in 1..Len(items) : items[k].id = id})]

\* C9: an item whose id is the id of a loaded card takes that card's place
\* with its own field values and the length stays; an item whose id is the id
\* of no loaded card is appended at the end and the length grows by one.
C9_UpsertInPlaceOrAppend ==
  \A i \in 1..Len(reqs) : Upserted(i) =>
    LET l  == reqs[i].loaded
        n  == reqs[i].next
        it == reqs[i].items
    IN /\ Len(n) = Len(l) + Cardinality({k \in 1..Len(it) : Novel(l, it[k])})
       /\ \A p \in 1..Len(l) :
            IF /\ \E k \in 1..Len(it) : it[k].id = l[p].id
               /\ \A q \in 1..Len(l) : l[q].id = l[p].id => q <= p
            THEN n[p] = LastItem(it, l[p].id)
            ELSE n[p] = l[p]
       /\ SubSeq(n, Len(l) + 1, Len(n)) = SelectSeq(it, LAMBDA x : Novel(l, x))

\* a POST of two items was saved: one replaced the first of two stored cards
\* where it was, the other was appended
C9_Witness ==
  \E i \in Units :
    /\ reqs[i].kind = "POST" /\ reqs[i].saved /\ Len(reqs[i].items) = 2
    /\ Len(reqs[i].loaded) = 2 /\ reqs[i].loaded[1].id = "a"
    /\ reqs[i].loaded[1].front # <<"h">>
    /\ Len(StoreCards) = 3 /\ StoreCards = reqs[i].next
    /\ StoreCards[1].id = "a" /\ StoreCards[1].front = <<"h">>
    /\ StoreCards[2] = reqs[i].loaded[2]
    /\ StoreCards[3].id = nanoid(1)

\* C10: the rename of a POST unit leaves the created_at of every card that
\* was already stored as it was.
C10_CreatedAtFixed ==
  [][\A i \in 1..Len(reqs) :
       (Rename(i) /\ reqs[i].kind = "POST") =>
         \A p \in 1..Len(fs[DATA_FILE].cards), q \in 1..Len(fs'[DATA_FILE].cards) :
           fs'[DATA_FILE].cards[q].id = fs[DATA_FILE].cards[p].id =>
             fs'[DATA_FILE].cards[q].created_at = fs[DATA_FILE].cards[p].created_at]_vars

\* C11: the rename of a PUT unit whose patch has no id field leaves the id
\* and the created_at of the patched card as they were.
C11_PatchKeepsIdentity ==
  [][\A i \in 1..Len(reqs) :
       (Rename(i) /\ reqs[i].kind = "PUT" /\ reqs[i].flag
          /\ "id" \notin reqs[i].patch.has) =>
         LET p == FindIndex(fs[DATA_FILE].cards, reqs[i].id) IN
           /\ fs'[DATA_FILE].cards[p].id = fs[DATA_FILE].cards[p].id
           /\ fs'[DATA_FILE].cards[p].created_at
                = fs[DATA_FILE].cards[p].created_at]_vars

\* C12: every card in the store file has a non-empty front and a non-empty
\* back.
C12_FrontBackNonEmpty ==
  \A p \in 1..Len(StoreCards) :
    StoreCards[p].front # <<>> /\ StoreCards[p].back # <<>>

\* C13: a PUT or DELETE unit that loaded a collection without its id answers
\* 404, and when it ends the store file holds the collection it loaded.
C13_NotFoundLeavesStore ==
  [][\A i \in 1..Len(reqs) :
       (/\ reqs[i].stage = "unit" /\ reqs[i].kind \in {"PUT", "DELETE"}
        /\ reqs[i].pc \in {"open", "write", "rename"}
        /\ Positions(reqs[i].loaded, reqs[i].id) = {}
        /\ reqs'[i].pc = "done") =>
         /\ reqs'[i].resp.status = 404
         /\ fs'[DATA_FILE] = Holding(reqs[i].loaded)]_vars

\* a PUT and a DELETE of an id that is not stored have answered 404 after a
\* successful save and the two stored cards are as they were
C13_Witness ==
  /\ Len(reqs) = 2
  /\ reqs[1].kind = "PUT" /\ reqs[2].kind = "DELETE"
  /\ \A i \in 1..2 :
       /\ reqs[i].id = "z" /\ reqs[i].pc = "done" /\ reqs[i].saved
       /\ reqs[i].resp.status = 404
  /\ Len(file0) = 2 /\ StoreCards = file0

\* the item has a front and a back that are not empty once normalised
PassesSanitization(c) == SanFront(c) # <<>> /\ SanBack(c) # <<>>

\* C14: a POST none of whose items passes sanitization answers 400 and
\* enqueues no unit, and while no unit was enqueued the store file is as it
\* was; otherwise the unit upserts one card for each item that passes, in body
\* order, and every card it writes is a loaded card or one of those.
C14_InvalidItemsDropped ==
  /\ Units = {} => fs[DATA_FILE] = Holding(file0)
  /\ \A i \in 1..Len(reqs) : (reqs[i].kind = "POST" /\ reqs[i].stage # "auth") =>
       LET valid == SelectSeq(reqs[i].incoming, PassesSanitization)
           r     == reqs[i]
       IN IF valid = <<>>
          THEN r.pc = "done" /\ r.resp.status = 400 /\ i \notin Units
          ELSE /\ i \in Units
               /\ Len(r.items) = Len(valid)
               /\ \A k \in 1..Len(valid) :
                    /\ r.items[k].front = SanFront(valid[k])
                    /\ r.items[k].back = SanBack(valid[k])
                    /\ "id" \in valid[k].has => r.items[k].id = valid[k].id
               /\ Upserted(i) =>
                    /\ \A p \in 1..Len(r.next) :
                         \/ p <= Len(r.loaded) /\ r.next[p] = r.loaded[p]
                         \/ \E k \in 1..Len(r.items) : r.next[p] = r.items[k]
                    /\ \A k \in 1..Len(r.items) :
                         \E p \in 1..Len(r.next) : r.next[p].id = r.items[k].id

\* a body of an invalid item only was answered 400 with the store untouched,
\* and a body of a valid and an invalid item was saved as one new card
C14_Witness ==
  /\ Len(reqs) = 2
  /\ reqs[1].kind = "POST" /\ reqs[1].resp.status = 400 /\ Len(reqs[1].incoming) = 1
  /\ reqs[2].kind = "POST" /\ reqs[2].saved /\ reqs[2].pc = "done"
  /\ Len(reqs[2].incoming) = 2 /\ Len(reqs[2].items) = 1
  /\ ~PassesSanitization(reqs[2].incoming[1])
  /\ reqs[2].resp.added = 1
  /\ Len(StoreCards) = Len(file0) + 1
  /\ chain = <<2>>

\* request i is in the last step of a safeRead that met a parse failure
ResetEnds(i) == SafeRead(i) /\ reqs[i].pc \in {"reset_write", "reset_stale"}

\* the caller of the safeRead of request i was handed the empty collection
\* and no error
ReturnsEmpty(i) ==
  CASE reqs[i].stage = "get" ->
         /\ reqs'[i].pc = "done"
         /\ reqs'[i].resp = Answer(200, 0, 0, <<>>)
    [] reqs[i].stage = "unit" ->
         /\ reqs'[i].pc = "open" /\ reqs'[i].loaded = <<>>
         /\ reqs'[i].next = Mutator(reqs[i], <<>>)
         /\ reqs'[i].resp = NoResp
    [] reqs[i].stage = "after" ->
         /\ reqs'[i].pc = "done"
         /\ reqs'[i].resp.status = 200 /\ reqs'[i].resp.n = 0

C16_GetReadsCommitted ==
  \A g \in 1..Len(reqs) : reqs[g].kind = "GET" =>
    /\ g \notin Units
    /\ reqs[g].stage = "get"
    /\ reqs[g].pc = "read" => ENABLED SafeRead(g)
    /\ reqs[g].pc = "done" =>
         /\ reqs[g].resp.status = 200
         /\ reqs[g].resp.n = Len(reqs[g].resp.cards)
         /\ \/ reqs[g].resp.cards = file0
            \/ \E j \in Units : reqs[j].saved /\ reqs[g].resp.cards = reqs[j].next

\* a GET that arrived after a POST was answered with the two initial cards
\* while the unit of the POST, which adds a card, has yet to rename its
\* temporary file
C16_Witness ==
  /\ Len(reqs) = 2
  /\ reqs[1].kind = "POST" /\ reqs[1].stage = "unit" /\ reqs[1].pc = "rename"
  /\ Len(reqs[1].next) = 3
  /\ reqs[2].kind = "GET" /\ reqs[2].pc = "done"
  /\ reqs[2].resp.n = 2 /\ reqs[2].resp.cards = file0

\* C17: a unit whose save failed is answered as if it had been saved (200
\* for a POST and for a PUT or DELETE that found its id, and so whenever the
\* unit had a change to save); while no unit was saved the store file holds
\* the initial collection, and the unit queued behind a failed one can start.
C17_SaveFailureUnreported ==
  /\ (\A j \in Units : ~reqs[j].saved) => fs[DATA_FILE] = Holding(file0)
  /\ \A i \in Units : (Settled(i) /\ ~reqs[i].saved) =>
       /\ reqs[i].pc = "done" =>
            /\ reqs[i].resp.status =
                 IF reqs[i].kind = "POST" \/ reqs[i].flag THEN 200 ELSE 404
            /\ reqs[i].next # reqs[i].loaded => reqs[i].resp.status = 200
       /\ \A k \in 1..(Len(chain) - 1) :
            (chain[k] = i /\ reqs[chain[k + 1]].pc = "queued") =>
              ENABLED UnitStart(chain[k + 1])

\* the save of a PUT that changed a card failed and the PUT was answered 200;
\* the store file holds the initial cards; the POST that arrived meanwhile
\* was served after it
C17_Witness ==
  /\ Len(reqs) = 2
  /\ reqs[1].kind = "PUT" /\ reqs[1].pc = "done" /\ ~reqs[1].saved
  /\ reqs[1].next # reqs[1].loaded /\ reqs[1].resp.status = 200
  /\ reqs[2].kind = "POST" /\ reqs[2].waited /\ reqs[2].pc = "done"
  /\ ~reqs[2].saved /\ reqs[2].resp.status = 200
  /\ reqs[2].resp.added = 1 /\ reqs[2].resp.n = 2
  /\ StoreCards = file0

\* request i is answered in this step
Answers(i) == reqs[i].resp = NoResp /\ reqs'[i].resp # NoResp

\* no unit enqueued after the unit of request i has started
NoLaterUnitStarted(i) ==
  \A j \in Units : j > i => reqs[j].stage = "unit" /\ reqs[j].pc = "queued"

\* C19: a PUT or DELETE is answered in the step that ends its unit, by the
\* rename or by the failure of the save; a POST is answered by a load made
\* after its unit ended, with the length of the store file at that load as
\* total and the number of items that passed sanitization as added; when no
\* later unit has started, total is the length its unit saved, or the length
\* its unit loaded when the save failed.
C19_AnswerAfterUnit ==
  [][\A i \in 1..Len(reqs) : (i \in Units /\ Answers(i)) =>
       IF reqs[i].kind = "POST"
       THEN /\ reqs[i].stage = "after" /\ Settled(i)
            /\ reqs'[i].resp.status = 200
            /\ reqs'[i].resp.n = Len(fs[DATA_FILE].cards)
            /\ reqs'[i].resp.added
                 = Len(SelectSeq(reqs[i].incoming, PassesSanitization))
            /\ NoLaterUnitStarted(i) =>
                 reqs'[i].resp.n = Len(IF reqs[i].saved THEN reqs[i].next
                                       ELSE reqs[i].loaded)
       ELSE /\ reqs[i].stage = "unit"
            /\ reqs[i].pc \in {"open", "write", "rename"}
            /\ reqs'[i].pc = "done"
            /\ reqs'[i].saved <=> Rename(i)]_vars

\* a POST of one valid and one invalid item to an empty store was answered
\* added 1 and total 1 after its unit was saved, and the PUT that arrived
\* while that unit was pending was answered after its own unit was saved
C19_Witness ==
  /\ Len(reqs) = 2 /\ file0 = <<>>
  /\ reqs[1].kind = "POST" /\ reqs[1].pc = "done" /\ reqs[1].saved
  /\ Len(reqs[1].incoming) = 2
  /\ reqs[1].resp.added = 1 /\ reqs[1].resp.n = 1 /\ Len(reqs[1].next) = 1
  /\ reqs[2].kind = "PUT" /\ reqs[2].waited /\ reqs[2].pc = "done"
  /\ reqs[2].saved /\ reqs[2].resp.status = 200

\* the unit of request i has loaded its collection
HasLoaded(i) ==
  reqs[i].stage = "unit" /\ reqs[i].pc \in {"open", "write", "rename", "done"}

\* C20: a PUT or DELETE answers 200 exactly when the collection its unit
\* loaded has a card of its id, and that collection is the one the unit before
\* it in the chain saved: behind a saved POST with an item of the id it
\* answers 200, behind a saved DELETE of the id it answers 404.
C20_FoundAgainstLoaded ==
  \A k \in 1..Len(chain) :
    LET b == chain[k] IN
      (reqs[b].kind \in {"PUT", "DELETE"} /\ HasLoaded(b)) =>
        /\ reqs[b].flag <=> Positions(reqs[b].loaded, reqs[b].id) # {}
        /\ reqs[b].pc = "done" =>
             reqs[b].resp.status = IF reqs[b].flag THEN 200 ELSE 404
        /\ \A a \in {chain[h] : h \in {k - 1} \cap 1..Len(chain)} :
             reqs[a].saved =>
               /\ reqs[b].loaded = reqs[a].next
               /\ (/\ reqs[a].kind = "POST"
                   /\ \E n \in 1..Len(reqs[a].items) :
                        reqs[a].items[n].id = reqs[b].id) => reqs[b].flag
               /\ (reqs[a].kind = "DELETE" /\ reqs[a].id = reqs[b].id) =>
                    ~reqs[b].flag

\* the store was empty when a POST of the card "a" and then a PUT of "a"
\* arrived; the PUT waited for the unit of the POST and was answered 200
C20_Witness ==
  /\ Len(reqs) = 2 /\ file0 = <<>> /\ chain = <<1, 2>>
  /\ reqs[1].kind = "POST" /\ reqs[1].saved
  /\ reqs[2].kind = "PUT" /\ reqs[2].id = "a" /\ reqs[2].waited
  /\ reqs[2].pc = "done" /\ reqs[2].resp.status = 200

\* ------------------------------------------- sanitizeCard applied twice
MaxLen == 3

\* the characters sanitizeCard treats differently: "=", whitespace, others
Chars == {"=", " ", "f"}
Texts == UNION {[1..n -> Chars] : n \in 0..MaxLen}

\* backs: a plain string, a string with "=" behind whitespace, arrays
SanBacks ==
  {Str(<<"x">>), Str(<<" ", "=", "x">>),
   Arr(<< <<"=", "x">> >>), Arr(<< <<"x">>, <<"y">> >>)}

\* the objects handed to sanitizeCard, with and without an id
SanInputs ==
  {[RawBase EXCEPT !.has = h, !.id = "a", !.front = f, !.back = b] :
     f \in Texts, b \in SanBacks,
     h \in {{"front", "back"}, {"id", "front", "back"}}}

\* the card sanitizeCard returned, given back to it as an object
AsInput(card) ==
  [RawBase EXCEPT !.has = CardFields, !.id = card.id, !.front = card.front,
                  !.back = Str(card.back), !.lang_from = card.lang_from,
                  !.lang_to = card.lang_to, !.tags = card.tags,
                  !.ease = card.ease, !.interval = card.interval,
                  !.next_review = card.next_review, !.lapses = card.lapses,
                  !.created_at = card.created_at]

\* one caller of sanitizeCard: its argument and the two results, <<>> for
\* null and for a call not made yet
SanInit ==
  /\ \E x \in SanInputs :
       reqs = <<[arg |-> x, pc |-> "call", out |-> <<>>, again |-> <<>>]>>
  /\ fs = [p \in Paths |-> IF p = DATA_FILE THEN Holding(<<>>) ELSE Absent]
  /\ file0 = <<>>
  /\ chain = <<>>
  /\ now = 1
  /\ gen = 0

\* sanitizeCard(arg)
SanCall ==
  /\ reqs[1].pc = "call"
  /\ IF SanNull(reqs[1].arg)
     THEN /\ reqs' = [reqs EXCEPT ![1].pc = "null"]
          /\ gen' = gen
     ELSE /\ reqs' = [reqs EXCEPT ![1].pc = "again",
                        ![1].out = <<sanitizeCard(reqs[1].arg, now, nanoid(gen + 1))>>]
          /\ gen' = IF NeedsId(reqs[1].arg) THEN gen + 1 ELSE gen
  /\ UNCHANGED <<fs, chain, now, file0>>

\* sanitizeCard(sanitizeCard(arg)), at the same time or later
SanAgain ==
  /\ reqs[1].pc = "again"
  /\ \E t \in now..MaxTime :
       LET c == AsInput(reqs[1].out[1]) IN
         /\ now' = t
         /\ reqs' = [reqs EXCEPT ![1].pc = "done",
                       ![1].again = IF SanNull(c) THEN <<>>
                                    ELSE <<sanitizeCard(c, t, nanoid(gen + 1))>>]
         /\ gen' = IF NeedsId(c) THEN gen + 1 ELSE gen
  /\ UNCHANGED <<fs, chain, file0>>

SanNext == SanCall \/ SanAgain

SanSpec == SanInit /\ [][SanNext]_vars

\* C18: sanitizeCard applied to the card it returned returns a card equal to
\* it in every field.
C18_SanitizeIdempotent ==
  reqs[1].pc = "done" => reqs[1].again = reqs[1].out

====
